---- MODULE Spec2Model ----
(***************************************************************************)
(* FMRadioHalControl (src/fmradiohalcontrol.cpp): the control layer that  *)
(* drives an FM tuner through the radio HAL.                               *)
(*                                                                         *)
(* The object's fields are the variables.  Every method is an operator    *)
(* that maps a record of the fields (plus the notifications emitted and   *)
(* the HAL commands issued so far in the running step) to the record after *)
(* the call, so that a handler calling other methods is their composition. *)
(* An action is one public call, one radio event delivered by the HAL's   *)
(* callback thread, one queued slot invocation run by the session's event *)
(* loop, or one expiry of the seek timer.                                  *)
(*                                                                         *)
(* Representation of `unsigned`: a 32-bit unsigned field is held as the   *)
(* integer its bit pattern denotes in two's complement (0 - 1 is held as  *)
(* -1 and stands for 2^32 - 1).  Sums and differences of such values are  *)
(* then the plain integer ones, as long as they stay inside 32 bits, which *)
(* the band bounds guarantee; order (UGE, UGT, ULT) and division are the  *)
(* unsigned ones.                                                          *)
(***************************************************************************)
EXTENDS Integers, Sequences, FiniteSets, TLC

(***************************************************************************)
(* Bounds of the model.                                                    *)
(***************************************************************************)
\* config.lower_limit and config.upper_limit, in kHz scaled down
LowerLimit == 1
UpperLimit == 3
\* queued slot invocations the session's event loop holds at most
MaxQueue == 1
\* records one metadata event carries at most
MaxRecords == 1
ConvSteps == 20
\* queued slot invocations at most, in the session lifecycle specification
MaxInFlight == 2

Band == LowerLimit..UpperLimit

VARIABLES
    tuner,                  \* m_hal->tuner != 0: a tuning session is open
    m_error,
    m_rdsError,
    m_tunerReady,
    m_stereoEnabled,
    m_currentFreq,
    m_searchMode,
    timerActive,            \* m_seekTimer->isActive()
    m_searching,
    m_searchAll,
    m_searchAllLast,
    m_searchWaitForRDS,
    m_firstFoundFrequency,
    m_searchRange,
    m_lastFrequency,
    m_stationId,
    m_stationName,
    m_programType,
    m_radioText,
    config_rds,             \* m_hal->config.fm.rds, fixed by openRadio()
    queue,                  \* queued slot invocations, oldest first
    piSinceTuned,           \* history: an RDS_PI record was read since the last tuned-event was handled
    found,                  \* history: the frequencies passed to stationFound since the sweep started
    dupFound,               \* history: a frequency was passed to stationFound twice in the sweep
    stations,               \* scanning hardware: the channels that hold a station ({}: no hardware assumed)
    hwFreq,                 \* scanning hardware: the channel it is tuned to
    hwOwes,                 \* scanning hardware: it owes the tuned-event of its last command
    qtFreq,                 \* unit conversion: a frequency in Hz
    halFreq,                \* unit conversion: the frequency in kHz
    qtBack,                 \* unit conversion: the frequency in Hz again
    convStage,              \* unit conversion: "in", "native" or "external"
    cbPc,                   \* callback thread: its position in handleMetadata ("idle": outside)
    cbStr                   \* callback thread: the station id text it is handling

fields == <<tuner, m_error, m_rdsError, m_tunerReady, m_stereoEnabled, m_currentFreq,
            m_searchMode, timerActive, m_searching, m_searchAll, m_searchAllLast,
            m_searchWaitForRDS, m_firstFoundFrequency, m_searchRange, m_lastFrequency,
            m_stationId, m_stationName, m_programType, m_radioText, config_rds>>

history == <<piSinceTuned, found, dupFound>>
hardware == <<stations, hwFreq, hwOwes>>
conversion == <<qtFreq, halFreq, qtBack, convStage>>

callback == <<cbPc, cbStr>>

vars == <<fields, queue, history, hardware, conversion, callback>>

\* the largest value of a 32-bit int
IntMax == 2147483647

(***************************************************************************)
(* Unit conversion and unsigned arithmetic.                                *)
(***************************************************************************)
\* a variant of FREQ_QT_TO_HAL that rounds to the nearest kHz instead of truncating
FREQ_QT_TO_HAL_nearest(f) ==
    IF f >= 0 THEN f \div 1000 + (IF f % 1000 >= 500 THEN 1 ELSE 0)
              ELSE 4294967 + ((f + 296) \div 1000)

\* static_cast<unsigned int>(f) / 1000 for a 32-bit int f.  For f < 0 the cast
\* gives f + 2^32, and 2^32 = 4294967 * 1000 + 296.
FREQ_QT_TO_HAL(f) ==
    IF f >= 0 THEN f \div 1000
              ELSE 4294967 + ((f + 296) \div 1000)

\* static_cast<int>(f) * 1000: the product fits an int up to IntMax \div 1000;
\* past it the signed product overflows, which the language leaves undefined
FREQ_HAL_TO_QT(f) == f * 1000

HalToQtDefined(f) == 0 <= f /\ f <= IntMax \div 1000

\* a >= b, a > b, a < b for two unsigned values
UGE(a, b) == IF (a >= 0) = (b >= 0) THEN a >= b ELSE a < 0
UGT(a, b) == ~UGE(b, a)
ULT(a, b) == ~UGE(a, b)

(***************************************************************************)
(* The record of the object's fields and of the running step's outputs.   *)
(***************************************************************************)
Cur ==
    [tuner |-> tuner, m_error |-> m_error, m_rdsError |-> m_rdsError,
     m_tunerReady |-> m_tunerReady, m_stereoEnabled |-> m_stereoEnabled,
     m_currentFreq |-> m_currentFreq, m_searchMode |-> m_searchMode,
     timerActive |-> timerActive, m_searching |-> m_searching,
     m_searchAll |-> m_searchAll, m_searchAllLast |-> m_searchAllLast,
     m_searchWaitForRDS |-> m_searchWaitForRDS,
     m_firstFoundFrequency |-> m_firstFoundFrequency,
     m_searchRange |-> m_searchRange, m_lastFrequency |-> m_lastFrequency,
     m_stationId |-> m_stationId, m_stationName |-> m_stationName,
     m_programType |-> m_programType, m_radioText |-> m_radioText,
     config_rds |-> config_rds, queue |-> queue,
     emitted |-> <<>>, cmds |-> <<>>]

\* emit <signal>(args): one more notification of the running step
Emit(s, n) == [s EXCEPT !.emitted = Append(@, n)]
\* m_hal->tuner-><command>(...): one more command to the hardware
HalCall(s, c) == [s EXCEPT !.cmds = Append(@, c)]
\* a queued connection: the slot runs in a later turn of the event loop
Post(s, m) == [s EXCEPT !.queue = Append(@, m)]

(***************************************************************************)
(* Session state accessors and latched values.                             *)
(***************************************************************************)
tunerEnabled(s) == s.tuner /\ s.m_tunerReady

tunerState(s) == IF tunerEnabled(s) THEN "ActiveState" ELSE "StoppedState"

\* a variant of setError that announces every error it is given
setError_always(s, newError) ==
    Emit([s EXCEPT !.m_error = newError], <<"error", newError>>)

setError(s, newError) ==
    IF newError # s.m_error
    THEN Emit([s EXCEPT !.m_error = newError], <<"error", newError>>)
    ELSE s

setRdsError(s, newError) ==
    IF newError # s.m_rdsError
    THEN Emit([s EXCEPT !.m_rdsError = newError], <<"error", "QRadioData", newError>>)
    ELSE s

\* libOpened: android_dlopen found the metadata library; symbolsFound: its
\* three functions were resolved
openRadioMetadata(s, libOpened, symbolsFound) ==
    IF ~libOpened THEN setRdsError(s, "ResourceError")
    ELSE IF symbolsFound THEN s
    ELSE setRdsError(s, "ResourceError")

setStereoEnabled(s, enabled) ==
    IF enabled # s.m_stereoEnabled
    THEN Emit([s EXCEPT !.m_stereoEnabled = enabled], <<"stereoStatusChanged", enabled>>)
    ELSE s

(***************************************************************************)
(* RDS program type tables.                                                *)
(***************************************************************************)
rbdsTypes ==
    <<0, 1, 3, 4, 32, 11, 33, 34, 35, 36, 25, 27, 37, 38, 24, 39,
      40, 41, 42, 43, 44, 45, 46, 47, 0, 0, 0, 0, 0, 16, 30, 31>>

programTypeValue(rdsStandard, type) ==
    LET t == IF type >= 32 THEN 0 ELSE type
    IN  IF rdsStandard = 0 THEN t ELSE rbdsTypes[t + 1]

\* the name is the entry of the standard's table at the (normalised) type
programTypeNameString(rdsStandard, type) ==
    <<IF rdsStandard = 0 THEN "rdsTypes" ELSE "rbdsTypes",
      IF type >= 32 THEN 0 ELSE type>>

resetRDS(s) ==
    LET s1 == IF s.m_radioText # <<>>
              THEN Emit([s EXCEPT !.m_radioText = <<>>], <<"radioTextChanged", <<>>>>)
              ELSE s
        s2 == IF s1.m_stationName # <<>>
              THEN Emit([s1 EXCEPT !.m_stationName = <<>>], <<"stationNameChanged", <<>>>>)
              ELSE s1
        s3 == IF s2.m_programType # 0
              THEN Emit(Emit([s2 EXCEPT !.m_programType = 0],
                             <<"programTypeChanged", programTypeValue(0, 0)>>),
                        <<"programTypeNameChanged", programTypeNameString(0, 0)>>)
              ELSE s2
    IN  IF s3.m_stationId # <<>>
        THEN Emit([s3 EXCEPT !.m_stationId = <<>>], <<"stationIdChanged", <<>>>>)
        ELSE s3

(***************************************************************************)
(* Seek and search.                                                        *)
(***************************************************************************)
\* a variant of setSearching that leaves the seek timer running
setSearching_keepsTimer(s, searching) ==
    IF s.m_searching # searching
    THEN Emit([s EXCEPT !.m_searching = searching], <<"searchingChanged", searching>>)
    ELSE s

setSearching(s, searching) ==
    LET s1 == IF ~searching /\ s.timerActive
              THEN [s EXCEPT !.timerActive = FALSE]
              ELSE s
    IN  IF s1.m_searching # searching
        THEN Emit([s1 EXCEPT !.m_searching = searching], <<"searchingChanged", searching>>)
        ELSE s1

\* a variant of seek that does not look at what the scan returns
seek_ignoresResult(s, direction, ret) ==
    IF ~tunerEnabled(s) THEN s
    ELSE LET s1 == IF ~s.m_searchAll THEN resetRDS(s) ELSE s
             s2 == [s1 EXCEPT !.timerActive = TRUE]
             s3 == HalCall(s2, <<"scan", direction>>)
         IN  IF ~s3.m_searchAll THEN setSearching(s3, TRUE) ELSE s3

\* ret is what m_hal->tuner->scan returns
seek(s, direction, ret) ==
    IF ~tunerEnabled(s) THEN s
    ELSE LET s1 == IF ~s.m_searchAll THEN resetRDS(s) ELSE s
             s2 == [s1 EXCEPT !.timerActive = TRUE]
             s3 == HalCall(s2, <<"scan", direction>>)
         IN  IF ret = 0
             THEN IF ~s3.m_searchAll THEN setSearching(s3, TRUE) ELSE s3
             ELSE s3

searchForward(s, ret) == seek(s, "UP", ret)

searchBackward(s, ret) == seek(s, "DOWN", ret)

\* a variant of cancelSearch that does not look at m_searching
cancelSearch_unguarded(s) ==
    IF ~tunerEnabled(s) THEN s
    ELSE LET s1 == HalCall(s, <<"cancel">>)
             s2 == [s1 EXCEPT !.m_searchAll = FALSE,
                              !.m_searchAllLast = FALSE,
                              !.m_searchWaitForRDS = FALSE]
         IN  setSearching(s2, FALSE)

\* what m_hal->tuner->cancel returns is only logged
cancelSearch(s) ==
    IF ~s.m_searching \/ ~tunerEnabled(s) THEN s
    ELSE LET s1 == HalCall(s, <<"cancel">>)
             s2 == [s1 EXCEPT !.m_searchAll = FALSE,
                              !.m_searchAllLast = FALSE,
                              !.m_searchWaitForRDS = FALSE]
         IN  setSearching(s2, FALSE)

handleSeekTimeout(s, ret) ==
    IF s.m_searchAll
    THEN IF s.m_searchMode = "SearchFast"
         THEN cancelSearch(s)
         ELSE IF s.m_firstFoundFrequency = 0
              THEN cancelSearch(s)
              ELSE searchForward(
                       Emit(s, <<"stationFound", FREQ_HAL_TO_QT(s.m_currentFreq), s.m_stationId>>),
                       ret)
    ELSE cancelSearch(s)

searchAllStations(s, searchMode, ret) ==
    LET s1 == resetRDS(s)
        s2 == [s1 EXCEPT !.m_searchMode =
                   IF s1.config_rds = "RADIO_RDS_NONE" THEN "SearchFast" ELSE searchMode]
        s3 == IF s2.m_searchMode = "SearchGetStationId"
              THEN [s2 EXCEPT !.m_searchWaitForRDS = TRUE]
              ELSE s2
        s4 == [s3 EXCEPT !.m_searchAll = TRUE,
                         !.m_searchAllLast = FALSE,
                         !.m_firstFoundFrequency = 0,
                         !.m_searchRange = UpperLimit - LowerLimit,
                         !.m_lastFrequency = s3.m_currentFreq - LowerLimit]
    IN  searchForward(setSearching(s4, TRUE), ret)

(***************************************************************************)
(* Tuning.                                                                 *)
(***************************************************************************)
\* what m_hal->tuner->tune returns is only logged
setTuning(s) ==
    IF ~s.tuner \/ s.m_currentFreq = 0 THEN s
    ELSE HalCall(s, <<"tune", s.m_currentFreq>>)

setFrequency(s, newFrequency) ==
    LET frequency == FREQ_QT_TO_HAL(newFrequency)
        clampedLow == IF ULT(frequency, LowerLimit) THEN LowerLimit ELSE frequency
        clamped == IF UGT(clampedLow, UpperLimit) THEN UpperLimit ELSE clampedLow
    IN  IF frequency = s.m_currentFreq THEN s
        ELSE LET s1 == [s EXCEPT !.m_currentFreq = clamped]
             IN  IF ~tunerEnabled(s1) THEN s1
                 ELSE setTuning(resetRDS(s1))

handleConfig(s, bandIsFM, stereo) ==
    LET s1 == IF ~s.m_tunerReady
              THEN Emit(setTuning(setError([s EXCEPT !.m_tunerReady = TRUE], "NoError")),
                        <<"stateChanged", "ActiveState">>)
              ELSE s
    IN  IF bandIsFM THEN setStereoEnabled(s1, stereo) ELSE s1

(***************************************************************************)
(* Tuned-events.                                                           *)
(***************************************************************************)
\* a variant of tunedSearchAll whose reduction does not wrap around the band
tunedSearchAll_nowrap(s, channel, ret) ==
    LET channelRelative == channel - LowerLimit
        s1 == IF s.m_firstFoundFrequency # 0
              THEN IF s.m_searchMode = "SearchFast"
                   THEN Emit(s, <<"stationFound", FREQ_HAL_TO_QT(channel), s.m_stationId>>)
                   ELSE s
              ELSE [s EXCEPT !.m_firstFoundFrequency = channel]
        reduce == channelRelative - s1.m_lastFrequency
        s2 == [s1 EXCEPT !.m_searchRange = @ - reduce,
                         !.m_lastFrequency = channel - LowerLimit]
    IN  IF s2.m_searchRange > 0
        THEN IF s2.m_searchMode = "SearchFast"
             THEN [s |-> searchForward(s2, ret), result |-> TRUE]
             ELSE [s |-> s2, result |-> TRUE]
        ELSE IF s2.m_firstFoundFrequency # channel
             THEN IF s2.m_searchMode = "SearchFast"
                  THEN [s |-> [Emit(s2, <<"stationFound",
                                          FREQ_HAL_TO_QT(s2.m_firstFoundFrequency),
                                          s2.m_stationId>>)
                               EXCEPT !.m_searchAllLast = TRUE],
                        result |-> FALSE]
                  ELSE [s |-> [s2 EXCEPT !.m_searchAllLast = TRUE], result |-> TRUE]
             ELSE [s |-> [s2 EXCEPT !.m_searchAllLast = TRUE], result |-> FALSE]

\* a variant of tunedSearchAll that scans on at once in both search modes
tunedSearchAll_eager(s, channel, ret) ==
    LET channelRelative == channel - LowerLimit
        s1 == IF s.m_firstFoundFrequency # 0
              THEN IF s.m_searchMode = "SearchFast"
                   THEN Emit(s, <<"stationFound", FREQ_HAL_TO_QT(channel), s.m_stationId>>)
                   ELSE s
              ELSE [s EXCEPT !.m_firstFoundFrequency = channel]
        reduce == IF UGE(channelRelative, s1.m_lastFrequency)
                  THEN channelRelative - s1.m_lastFrequency
                  ELSE UpperLimit - LowerLimit - s1.m_lastFrequency + channelRelative
        s2 == [s1 EXCEPT !.m_searchRange = @ - reduce,
                         !.m_lastFrequency = channel - LowerLimit]
    IN  IF s2.m_searchRange > 0
        THEN [s |-> searchForward(s2, ret), result |-> TRUE]
        ELSE IF s2.m_firstFoundFrequency # channel
             THEN IF s2.m_searchMode = "SearchFast"
                  THEN [s |-> [Emit(s2, <<"stationFound",
                                          FREQ_HAL_TO_QT(s2.m_firstFoundFrequency),
                                          s2.m_stationId>>)
                               EXCEPT !.m_searchAllLast = TRUE],
                        result |-> FALSE]
                  ELSE [s |-> [s2 EXCEPT !.m_searchAllLast = TRUE], result |-> TRUE]
             ELSE [s |-> [s2 EXCEPT !.m_searchAllLast = TRUE], result |-> FALSE]

\* the fields after the call and the value returned; ret is what the scan of
\* the next step returns
tunedSearchAll(s, channel, ret) ==
    LET channelRelative == channel - LowerLimit
        s1 == IF s.m_firstFoundFrequency # 0
              THEN IF s.m_searchMode = "SearchFast"
                   THEN Emit(s, <<"stationFound", FREQ_HAL_TO_QT(channel), s.m_stationId>>)
                   ELSE s
              ELSE [s EXCEPT !.m_firstFoundFrequency = channel]
        reduce == IF UGE(channelRelative, s1.m_lastFrequency)
                  THEN channelRelative - s1.m_lastFrequency
                  ELSE UpperLimit - LowerLimit - s1.m_lastFrequency + channelRelative
        s2 == [s1 EXCEPT !.m_searchRange = @ - reduce,
                         !.m_lastFrequency = channel - LowerLimit]
    IN  IF s2.m_searchRange > 0
        THEN IF s2.m_searchMode = "SearchFast"
             THEN [s |-> searchForward(s2, ret), result |-> TRUE]
             ELSE [s |-> s2, result |-> TRUE]
        ELSE IF s2.m_firstFoundFrequency # channel
             THEN IF s2.m_searchMode = "SearchFast"
                  THEN [s |-> [Emit(s2, <<"stationFound",
                                          FREQ_HAL_TO_QT(s2.m_firstFoundFrequency),
                                          s2.m_stationId>>)
                               EXCEPT !.m_searchAllLast = TRUE],
                        result |-> FALSE]
                  ELSE [s |-> [s2 EXCEPT !.m_searchAllLast = TRUE], result |-> TRUE]
             ELSE [s |-> [s2 EXCEPT !.m_searchAllLast = TRUE], result |-> FALSE]

handleTuned(s, channel, stereo, ret) ==
    LET s1 == [s EXCEPT !.m_currentFreq = channel]
        stepped == ~s1.m_searchAllLast /\ s1.m_searchAll
        r == tunedSearchAll(s1, channel, ret)
        s2 == IF stepped THEN r.s ELSE s1
    IN  IF stepped /\ r.result THEN s2
        ELSE LET s3 == IF s2.m_searchAllLast
                       THEN setSearching([s2 EXCEPT !.m_searchAllLast = FALSE,
                                                    !.m_searchAll = FALSE,
                                                    !.m_searchWaitForRDS = FALSE],
                                         FALSE)
                       ELSE s2
                 s4 == Emit(s3, <<"frequencyChanged", FREQ_HAL_TO_QT(s3.m_currentFreq)>>)
             IN  setStereoEnabled(setSearching(s4, FALSE), stereo)

(***************************************************************************)
(* Session lifecycle.                                                      *)
(***************************************************************************)
\* m_hal->radiohw != 0: openRadio() opened the radio device
radiohw == TRUE

\* ret is what m_hal->radiohw->open_tuner returns; the tuner handle is set on success
start(s, ret) ==
    IF ~radiohw \/ s.tuner THEN s
    ELSE LET s1 == [s EXCEPT !.m_searching = FALSE,
                             !.m_searchAll = FALSE,
                             !.m_searchAllLast = FALSE]
         IN  IF ret = 0 THEN [s1 EXCEPT !.tuner = TRUE] ELSE s1

\* what m_hal->radiohw->close_tuner returns is only logged
stop(s) ==
    IF ~radiohw \/ ~s.tuner THEN s
    ELSE LET s1 == cancelSearch(s)
             s2 == HalCall([s1 EXCEPT !.m_tunerReady = FALSE], <<"close_tuner">>)
         IN  Emit([s2 EXCEPT !.tuner = FALSE], <<"stateChanged", "StoppedState">>)

handleHwFailure(s) == stop(setError(s, "ResourceError"))

(***************************************************************************)
(* RDS metadata.                                                           *)
(***************************************************************************)
\* the characters of the model's texts, with their code points
CodePoint(c) ==
    CASE c = "a" -> 97
      [] c = "b" -> 98
      [] c = " " -> 32
      [] c = "~" -> 126

\* the character class of the QRegExp, without its negation: a-z, A-Z, 0-9, the
\* range from space to underscore, and , ; . : ! # % & / ( ) = ? @ (pound) $ +
regExpClass ==
    (97..122) \cup (65..90) \cup (48..57) \cup (32..95)
        \cup {44, 59, 46, 58, 33, 35, 37, 38, 47, 40, 41, 61, 63, 64, 163, 36, 43}

InClass(c) == CodePoint(c) \in regExpClass

RECURSIVE trimmed(_)
trimmed(str) ==
    IF str = <<>> THEN str
    ELSE IF Head(str) = " " THEN trimmed(Tail(str))
    ELSE IF str[Len(str)] = " " THEN trimmed(SubSeq(str, 1, Len(str) - 1))
    ELSE str

\* str.remove(regExp).trimmed()
sanitize(str) == trimmed(SelectSeq(str, InClass))

\* a variant of handleRecord that notifies of every station name it reads
handleRecord_eager(s, rec) ==
    IF rec[1] = "TEXT" /\ rec[2] = "RDS_PS"
    THEN Emit([s EXCEPT !.m_stationName = sanitize(rec[3])],
              <<"stationNameChanged", sanitize(rec[3])>>)
    ELSE s

\* a variant of handleRecord that calls searchForward() itself on a new station
\* id, instead of emitting seekNextChannel
handleRecord_direct(s, rec) ==
    IF rec[1] = "TEXT" /\ rec[2] = "RDS_PI" /\ s.m_stationId # sanitize(rec[3])
    THEN LET s1 == [s EXCEPT !.m_stationId = sanitize(rec[3])]
         IN  IF s1.m_searchWaitForRDS
             THEN searchForward(Emit(s1, <<"stationFound",
                                           FREQ_HAL_TO_QT(s1.m_currentFreq),
                                           s1.m_stationId>>), 0)
             ELSE Emit(s1, <<"stationIdChanged", s1.m_stationId>>)
    ELSE s

\* a variant of handleRecord that announces a new station id without looking
\* at m_searchWaitForRDS
handleRecord_notify(s, rec) ==
    IF rec[1] = "TEXT" /\ rec[2] = "RDS_PI" /\ s.m_stationId # sanitize(rec[3])
    THEN Emit([s EXCEPT !.m_stationId = sanitize(rec[3])],
              <<"stationIdChanged", sanitize(rec[3])>>)
    ELSE s

\* one record of a metadata event: <<dataType, key, value>>
handleRecord(s, rec) ==
    LET dataType == rec[1]
        key == rec[2]
        str == sanitize(rec[3])
        integer == rec[3]
    IN  CASE dataType = "TEXT" /\ key = "RDS_PI" ->
                IF s.m_stationId # str
                THEN LET s1 == [s EXCEPT !.m_stationId = str]
                     IN  IF s1.m_searchWaitForRDS
                         THEN Post(Emit(s1, <<"stationFound",
                                              FREQ_HAL_TO_QT(s1.m_currentFreq),
                                              s1.m_stationId>>),
                                   <<"seekNextChannel">>)
                         ELSE Emit(s1, <<"stationIdChanged", s1.m_stationId>>)
                ELSE s
          [] dataType = "TEXT" /\ key = "RDS_PS" ->
                IF s.m_stationName # str
                THEN Emit([s EXCEPT !.m_stationName = str], <<"stationNameChanged", str>>)
                ELSE s
          [] dataType = "TEXT" /\ key = "TITLE" ->
                IF s.m_radioText # str
                THEN Emit([s EXCEPT !.m_radioText = str], <<"radioTextChanged", str>>)
                ELSE s
          [] dataType = "INT" /\ key = "RDS_PTY" ->
                IF s.m_programType # integer
                THEN Emit(Emit([s EXCEPT !.m_programType = integer],
                               <<"programTypeChanged", programTypeValue(0, integer)>>),
                          <<"programTypeNameChanged", programTypeNameString(0, integer)>>)
                ELSE s
          [] dataType = "INT" /\ key = "RBDS_PTY" ->
                IF s.m_programType # integer
                THEN Emit(Emit([s EXCEPT !.m_programType = integer],
                               <<"programTypeChanged", programTypeValue(1, integer)>>),
                          <<"programTypeNameChanged", programTypeNameString(1, integer)>>)
                ELSE s
          [] OTHER -> s

\* the loop over the records from index i on (1-based here); failAt is the index
\* at which metadata_get_at_index fails (0: at none)
RECURSIVE handleRecords(_, _, _, _)
handleRecords(s, records, i, failAt) ==
    IF i > Len(records) \/ i = failAt THEN s
    ELSE handleRecords(handleRecord(s, records[i]), records, i + 1, failAt)

\* a variant of handleMetadata that skips the consistency check
handleMetadata_unchecked(s, event) ==
    IF ~event.metadata \/ s.m_rdsError # "NoError" THEN s
    ELSE IF Len(event.records) = 0 THEN s
    ELSE handleRecords(s, event.records, 1, event.failAt)

\* event: [metadata: the event carries a metadata block, check: what
\* metadata_check returns, records: the block's records, failAt]
handleMetadata(s, event) ==
    IF ~event.metadata \/ s.m_rdsError # "NoError" THEN s
    ELSE IF event.check # 0 THEN s
    ELSE IF Len(event.records) = 0 THEN s
    ELSE handleRecords(s, event.records, 1, event.failAt)

(***************************************************************************)
(* Histories, kept by the sweep specifications (those with scanning         *)
(* hardware): the frequencies passed to stationFound in the running sweep.  *)
(***************************************************************************)
RECURSIVE Observe(_, _)
Observe(h, notes) ==
    IF notes = <<>> THEN h
    ELSE LET n == Head(notes)
         IN  IF n[1] = "stationFound"
             THEN Observe([found |-> h.found \cup {n[2]},
                           dup |-> h.dup \/ n[2] \in h.found], Tail(notes))
             ELSE Observe(h, Tail(notes))

(***************************************************************************)
(* The scanning hardware of the sweep specifications: it answers a scan    *)
(* with the next station in the direction of the scan, wrapping at the     *)
(* band's ends, and a tune with the channel tuned to; a cancel or a close  *)
(* drops the answer it owes.                                               *)
(***************************************************************************)
Min(S) == CHOOSE x \in S : \A y \in S : x <= y
Max(S) == CHOOSE x \in S : \A y \in S : x >= y

NextUp(f) ==
    LET above == {c \in stations : c > f}
    IN  IF above # {} THEN Min(above) ELSE Min(stations)

NextDown(f) ==
    LET below == {c \in stations : c < f}
    IN  IF below # {} THEN Max(below) ELSE Max(stations)

RECURSIVE HwAfter(_, _)
HwAfter(h, commands) ==
    IF commands = <<>> THEN h
    ELSE LET c == Head(commands)
             h1 == CASE c[1] = "scan" ->
                           [freq |-> IF c[2] = "UP" THEN NextUp(h.freq) ELSE NextDown(h.freq),
                            owes |-> TRUE]
                      [] c[1] = "tune" -> [freq |-> c[2], owes |-> TRUE]
                      [] OTHER -> [freq |-> h.freq, owes |-> FALSE]
         IN  HwAfter(h1, Tail(commands))

(***************************************************************************)
(* One step of the object: the fields become those of s.  newSweep says    *)
(* the step starts a sweep, pi what the step makes of piSinceTuned, owed    *)
(* whether the hardware still owes an answer when the step's commands      *)
(* reach it.                                                               *)
(***************************************************************************)
Assign(s) ==
    /\ tuner' = s.tuner
    /\ m_error' = s.m_error
    /\ m_rdsError' = s.m_rdsError
    /\ m_tunerReady' = s.m_tunerReady
    /\ m_stereoEnabled' = s.m_stereoEnabled
    /\ m_currentFreq' = s.m_currentFreq
    /\ m_searchMode' = s.m_searchMode
    /\ timerActive' = s.timerActive
    /\ m_searching' = s.m_searching
    /\ m_searchAll' = s.m_searchAll
    /\ m_searchAllLast' = s.m_searchAllLast
    /\ m_searchWaitForRDS' = s.m_searchWaitForRDS
    /\ m_firstFoundFrequency' = s.m_firstFoundFrequency
    /\ m_searchRange' = s.m_searchRange
    /\ m_lastFrequency' = s.m_lastFrequency
    /\ m_stationId' = s.m_stationId
    /\ m_stationName' = s.m_stationName
    /\ m_programType' = s.m_programType
    /\ m_radioText' = s.m_radioText
    /\ config_rds' = s.config_rds
    /\ queue' = s.queue

Commit(s, newSweep, pi, owed) ==
    /\ Assign(s)
    /\ IF stations = {}
       THEN UNCHANGED <<history, hardware>>
       ELSE LET h == Observe(IF newSweep THEN [found |-> {}, dup |-> FALSE]
                                         ELSE [found |-> found, dup |-> dupFound],
                             s.emitted)
                hw == HwAfter([freq |-> hwFreq, owes |-> owed], s.cmds)
            IN  /\ found' = h.found
                /\ dupFound' = h.dup
                /\ piSinceTuned' = pi
                /\ hwFreq' = hw.freq
                /\ hwOwes' = hw.owes
                /\ UNCHANGED stations
    /\ UNCHANGED <<conversion, callback>>

Do(s) == Commit(s, FALSE, piSinceTuned, hwOwes)

(***************************************************************************)
(* Inputs.                                                                 *)
(***************************************************************************)
\* what a HAL command returns: 0, or an error
HalResults == {0, -1}

SearchModes == {"SearchFast", "SearchGetStationId"}

\* requests to setFrequency, in Hz: negative, below 1000, each channel of the
\* band and the channels next to it, one between two channels
FrequencyInputs ==
    {-1000, 999} \cup {c * 1000 : c \in (LowerLimit - 1)..(UpperLimit + 1)}
        \cup {LowerLimit * 1000 + 500}

\* the records of metadata events: <<dataType, key, value>>
PiRecords == {<<"TEXT", "RDS_PI", v>> : v \in {<<"a">>, <<"b">>}}

Records ==
    PiRecords
        \cup {<<"TEXT", "RDS_PS", v>> : v \in {<<"a">>, <<" ", "a", "~">>, <<"b">>}}
        \cup {<<"TEXT", "TITLE", v>> : v \in {<<"a">>, <<"~">>}}
        \cup {<<"INT", "RDS_PTY", v>> : v \in {0, 5}}
        \cup {<<"INT", "RBDS_PTY", 5>>, <<"TEXT", "ARTIST", <<"a">>>>}

RecordSeqs(R) == UNION {[1..n -> R] : n \in 0..MaxRecords}

\* an event without a metadata block, events whose consistency check fails,
\* and consistent events, read to the end or up to a failing index
MetadataEvents(R) ==
    {[metadata |-> FALSE, check |-> 0, records |-> <<>>, failAt |-> 0]}
        \cup {[metadata |-> TRUE, check |-> -1, records |-> r, failAt |-> 0] :
                 r \in RecordSeqs(R)}
        \cup {[metadata |-> TRUE, check |-> 0, records |-> r, failAt |-> f] :
                 r \in RecordSeqs(R), f \in 0..MaxRecords}

\* the events that carry one station-id record
PiEvents ==
    {e \in MetadataEvents(PiRecords) : Len(e.records) = 1 /\ e.failAt <= 1}

(***************************************************************************)
(* Construction.                                                           *)
(***************************************************************************)
\* the constructor's initialiser list
Constructed ==
    /\ tuner = FALSE
    /\ m_error = "NoError"
    /\ m_tunerReady = FALSE
    /\ m_stereoEnabled = TRUE
    /\ m_currentFreq = 0
    /\ m_searchMode = "SearchFast"
    /\ timerActive = FALSE
    /\ m_searching = FALSE
    /\ m_searchAll = FALSE
    /\ m_searchAllLast = FALSE
    /\ m_searchWaitForRDS = FALSE
    /\ m_firstFoundFrequency = 0
    /\ m_searchRange = 0
    /\ m_lastFrequency = 0
    /\ m_stationId = <<>>
    /\ m_stationName = <<>>
    /\ m_programType = 0
    /\ m_radioText = <<>>
    /\ queue = <<>>

NoHistory == piSinceTuned = FALSE /\ found = {} /\ dupFound = FALSE

NoHardware == stations = {} /\ hwFreq = 0 /\ hwOwes = FALSE

NoConversion == qtFreq = 0 /\ halFreq = 0 /\ qtBack = 0 /\ convStage = "in"

NoCallback == cbPc = "idle" /\ cbStr = <<>>

\* openRadioMetadata() leaves m_rdsError at NoError or sets ResourceError;
\* openRadio() takes the band configuration, with or without RDS
Init ==
    /\ Constructed
    /\ m_rdsError \in {openRadioMetadata([m_rdsError |-> "NoError", emitted |-> <<>>],
                                        libOpened, symbolsFound).m_rdsError :
                          libOpened \in BOOLEAN, symbolsFound \in BOOLEAN}
    /\ config_rds \in {"RADIO_RDS_NONE", "RADIO_RDS_WORLD"}
    /\ NoHistory
    /\ NoHardware
    /\ NoConversion
    /\ NoCallback

(***************************************************************************)
(* Public operations, called in the session's context.                     *)
(***************************************************************************)
Start(ret) == Do(start(Cur, ret))

Stop == Do(stop(Cur))

SetFrequency(newFrequency) == Do(setFrequency(Cur, newFrequency))

SearchForward(ret) == Do(searchForward(Cur, ret))

SearchBackward(ret) == Do(searchBackward(Cur, ret))

SearchAllStations(searchMode, ret) ==
    Commit(searchAllStations(Cur, searchMode, ret), TRUE, piSinceTuned, hwOwes)

CancelSearch == Do(cancelSearch(Cur))

(***************************************************************************)
(* radioEvent, called by the HAL in its callback thread while a session is *)
(* open: every kind but metadata emits a signal whose slot is queued to    *)
(* the session's context; metadata is handled in place.                    *)
(***************************************************************************)
radioEvent(s, message) == Post(s, message)

RadioEvent(message) ==
    /\ tuner
    /\ Len(queue) < MaxQueue
    /\ Do(radioEvent(Cur, message))

RadioEventTuned(channel) == RadioEvent(<<"eventTuned", channel>>)

RadioEventConfig == RadioEvent(<<"eventConfig">>)

RadioEventHwFailure == RadioEvent(<<"eventHwFailure">>)

\* the event's records up to the failing index hold an RDS_PI text
ReadsPI(event) ==
    /\ event.metadata
    /\ event.check = 0
    /\ \E i \in 1..Len(event.records) :
          /\ event.failAt = 0 \/ i < event.failAt
          /\ event.records[i][1] = "TEXT"
          /\ event.records[i][2] = "RDS_PI"

RadioEventMetadata(event) ==
    /\ tuner
    /\ LET s == handleMetadata(Cur, event)
       IN  /\ Len(s.queue) <= MaxQueue
           /\ Commit(s, FALSE, piSinceTuned \/ (m_rdsError = "NoError" /\ ReadsPI(event)),
                     hwOwes)

(***************************************************************************)
(* The session's event loop runs the oldest queued slot invocation.        *)
(***************************************************************************)
Dequeued == [Cur EXCEPT !.queue = Tail(queue)]

HandleTuned(stereo, ret) ==
    /\ queue # <<>>
    /\ Head(queue)[1] = "eventTuned"
    /\ Commit(handleTuned(Dequeued, Head(queue)[2], stereo, ret), FALSE, FALSE, hwOwes)

HandleConfig(bandIsFM, stereo) ==
    /\ queue # <<>>
    /\ Head(queue)[1] = "eventConfig"
    /\ Do(handleConfig(Dequeued, bandIsFM, stereo))

HandleHwFailure ==
    /\ queue # <<>>
    /\ Head(queue)[1] = "eventHwFailure"
    /\ Do(handleHwFailure(Dequeued))

\* connect(this, SIGNAL(seekNextChannel()), this, SLOT(searchForward()))
SeekNextChannel(ret) ==
    /\ queue # <<>>
    /\ Head(queue)[1] = "seekNextChannel"
    /\ Do(searchForward(Dequeued, ret))

(***************************************************************************)
(* The seek timer expires while it is active (it repeats).                 *)
(***************************************************************************)
SeekTimeout(ret) ==
    /\ timerActive
    /\ Do(handleSeekTimeout(Cur, ret))

(***************************************************************************)
(* The object in any environment: any call at any time, any event of the   *)
(* HAL while a session is open, the timer whenever it runs.                *)
(***************************************************************************)
Next ==
    \/ \E ret \in HalResults : Start(ret)
    \/ Stop
    \/ \E f \in FrequencyInputs : SetFrequency(f)
    \/ \E ret \in HalResults : SearchForward(ret)
    \/ \E ret \in HalResults : SearchBackward(ret)
    \/ \E mode \in SearchModes, ret \in HalResults : SearchAllStations(mode, ret)
    \/ CancelSearch
    \/ \E c \in Band : RadioEventTuned(c)
    \/ RadioEventConfig
    \/ RadioEventHwFailure
    \/ \E event \in PiEvents : RadioEventMetadata(event)
    \/ \E ret \in HalResults : HandleTuned(TRUE, ret)
    \/ HandleConfig(TRUE, TRUE)
    \/ HandleHwFailure
    \/ \E ret \in HalResults : SeekNextChannel(ret)
    \/ \E ret \in HalResults : SeekTimeout(ret)

Spec == Init /\ [][Next]_vars

(***************************************************************************)
(* Sweeps over scanning hardware.  The session is open and the first       *)
(* config event was handled; the band holds a set of stations and the      *)
(* hardware answers every scan and tune with one tuned-event.  The client  *)
(* calls while nothing is under way; station ids arrive at any time; the   *)
(* timer expires only while the hardware is silent.                        *)
(***************************************************************************)
SweepInit ==
    /\ Constructed
    /\ m_rdsError = "NoError"
    /\ config_rds = "RADIO_RDS_WORLD"
    /\ NoHistory
    /\ NoConversion
    /\ NoCallback
    /\ stations \in SUBSET Band \ {{}}
    /\ hwFreq \in Band
    /\ hwOwes = FALSE

\* start() succeeds and the config event the HAL answers with is handled
Enable ==
    /\ ~tuner
    /\ Do(handleConfig(start(Cur, 0), TRUE, TRUE))

Quiescent == tuner /\ m_tunerReady /\ ~m_searching /\ queue = <<>> /\ ~hwOwes

\* the hardware delivers the tuned-event it owes
HwTuned ==
    /\ hwOwes
    /\ Len(queue) < MaxQueue
    /\ Commit(radioEvent(Cur, <<"eventTuned", hwFreq>>), FALSE, piSinceTuned, FALSE)

HwSilent == queue = <<>> /\ ~hwOwes

SweepNext ==
    \/ Enable
    \/ \E f \in FrequencyInputs : Quiescent /\ SetFrequency(f)
    \/ \E mode \in SearchModes : Quiescent /\ SearchAllStations(mode, 0)
    \/ HwTuned
    \/ \E event \in PiEvents : HwSilent /\ RadioEventMetadata(event)
    \/ HandleTuned(TRUE, 0)
    \/ SeekNextChannel(0)
    \/ HwSilent /\ SeekTimeout(0)

SweepSpec == SweepInit /\ [][SweepNext]_vars

\* the same without station ids, every step taken in the end
FairNext ==
    \/ Enable
    \/ \E f \in FrequencyInputs : Quiescent /\ SetFrequency(f)
    \/ \E mode \in SearchModes : Quiescent /\ SearchAllStations(mode, 0)
    \/ HwTuned
    \/ HandleTuned(TRUE, 0)
    \/ HwSilent /\ SeekTimeout(0)

FairSweepSpec ==
    /\ SweepInit
    /\ [][FairNext]_vars
    /\ WF_vars(HwTuned)
    /\ WF_vars(HandleTuned(TRUE, 0))
    /\ WF_vars(HwSilent /\ SeekTimeout(0))

(***************************************************************************)
(* The unit conversion alone: a frequency in Hz is converted to kHz as     *)
(* setFrequency does and back to Hz as frequency() does.  Where the        *)
(* product overflows the result is any int.                                *)
(***************************************************************************)
ConvInputs ==
    {k * 250 : k \in 0..ConvSteps} \cup {IntMax - k * 250 : k \in 0..ConvSteps}
        \cup {FREQ_HAL_TO_QT(LowerLimit), FREQ_HAL_TO_QT(UpperLimit)}

ConvInit ==
    /\ Constructed
    /\ m_rdsError = "NoError"
    /\ config_rds = "RADIO_RDS_WORLD"
    /\ NoHistory
    /\ NoHardware
    /\ qtFreq \in ConvInputs
    /\ halFreq = 0
    /\ qtBack = 0
    /\ convStage = "in"
    /\ NoCallback

ToNative ==
    /\ convStage = "in"
    /\ halFreq' = FREQ_QT_TO_HAL(qtFreq)
    /\ convStage' = "native"
    /\ UNCHANGED <<fields, queue, history, hardware, callback, qtFreq, qtBack>>

ToExternal ==
    /\ convStage = "native"
    /\ qtBack' \in (IF HalToQtDefined(halFreq) THEN {FREQ_HAL_TO_QT(halFreq)}
                                                ELSE {-IntMax - 1, -1, 0, IntMax})
    /\ convStage' = "external"
    /\ UNCHANGED <<fields, queue, history, hardware, callback, qtFreq, halFreq>>

ConvNext == ToNative \/ ToExternal

ConvSpec == ConvInit /\ [][ConvNext]_vars

(***************************************************************************)
(* RDS reception: the session is opened, configured and closed, searches   *)
(* are started and cancelled, and metadata events carry records of every   *)
(* kind; no channel is tuned.                                              *)
(***************************************************************************)
RdsNext ==
    \/ Start(0)
    \/ Stop
    \/ RadioEventConfig
    \/ \E bandIsFM \in BOOLEAN, stereo \in BOOLEAN : HandleConfig(bandIsFM, stereo)
    \/ SearchForward(0)
    \/ \E mode \in SearchModes : SearchAllStations(mode, 0)
    \/ CancelSearch
    \/ \E event \in MetadataEvents(Records) : RadioEventMetadata(event)
    \/ SeekNextChannel(0)

RdsSpec == Init /\ [][RdsNext]_vars

(***************************************************************************)
(* The session lifecycle: the session is opened and closed, config and     *)
(* hardware failure events are delivered, and their slots run, some after  *)
(* the session they came from was closed.                                  *)
(***************************************************************************)
LifecycleEvent(message) ==
    /\ tuner
    /\ Len(queue) < MaxInFlight
    /\ Do(radioEvent(Cur, message))

LifecycleNext ==
    \/ \E ret \in HalResults : Start(ret)
    \/ Stop
    \/ LifecycleEvent(<<"eventConfig">>)
    \/ LifecycleEvent(<<"eventHwFailure">>)
    \/ \E bandIsFM \in BOOLEAN, stereo \in BOOLEAN : HandleConfig(bandIsFM, stereo)
    \/ HandleHwFailure

LifecycleSpec == Init /\ [][LifecycleNext]_vars

(***************************************************************************)
(* The two threads.  radioEvent runs in the HAL's callback thread and      *)
(* calls handleMetadata there, so the handling of a station id record is   *)
(* three steps of that thread: the comparison with m_stationId, the store  *)
(* into it, and the branch on m_searchWaitForRDS with its emissions.  The  *)
(* session's thread runs its calls and slots between any two of them.      *)
(***************************************************************************)
\* m_stationId = str
piStore(s, str) == [s EXCEPT !.m_stationId = str]

\* if (m_searchWaitForRDS) ... else ...
piBranch(s) ==
    IF s.m_searchWaitForRDS
    THEN Post(Emit(s, <<"stationFound", FREQ_HAL_TO_QT(s.m_currentFreq), s.m_stationId>>),
              <<"seekNextChannel">>)
    ELSE Emit(s, <<"stationIdChanged", s.m_stationId>>)

CallbackStep(s, pc, str) ==
    /\ Assign(s)
    /\ cbPc' = pc
    /\ cbStr' = str
    /\ UNCHANGED <<history, hardware, conversion>>

\* the callback thread is given a metadata event whose station id record it
\* reads, and finds the id different from the one held
CbCompare(event) ==
    /\ tuner
    /\ cbPc = "idle"
    /\ Len(queue) < MaxQueue
    /\ m_rdsError = "NoError"
    /\ ReadsPI(event)
    /\ m_stationId # sanitize(event.records[1][3])
    /\ CallbackStep(Cur, "store", sanitize(event.records[1][3]))

CbStore ==
    /\ cbPc = "store"
    /\ CallbackStep(piStore(Cur, cbStr), "branch", cbStr)

CbBranch ==
    /\ cbPc = "branch"
    /\ CallbackStep(piBranch(Cur), "idle", <<>>)

\* the callback thread delivers one event at a time
CbConfig == cbPc = "idle" /\ RadioEventConfig

ThreadNext ==
    \/ Start(0)
    \/ Stop
    \/ CbConfig
    \/ HandleConfig(TRUE, TRUE)
    \/ \E f \in FrequencyInputs : SetFrequency(f)
    \/ \E mode \in SearchModes : SearchAllStations(mode, 0)
    \/ CancelSearch
    \/ SeekNextChannel(0)
    \/ \E event \in PiEvents : CbCompare(event)
    \/ CbStore
    \/ CbBranch

ThreadSpec == Init /\ [][ThreadNext]_vars

(***************************************************************************)
(* C1: during one fast sweep, from searchAllStations(SearchFast) until     *)
(* searching becomes false, no frequency is passed to stationFound more    *)
(* than once.                                                              *)
(***************************************************************************)
FastSweepReportsNoFrequencyTwice ==
    m_searchMode = "SearchFast" => ~dupFound

(***************************************************************************)
(* C2: a fast sweep terminates: with hardware that answers every scan with *)
(* a tuned-event on the next station upward, wrapping at the upper limit,  *)
(* searching becomes false in the end, for every non-empty set of stations *)
(* in the band.                                                            *)
(***************************************************************************)
FastSweepTerminates ==
    (m_searching /\ m_searchAll /\ m_searchMode = "SearchFast") ~> ~m_searching

(***************************************************************************)
(* C4: in a station-id sweep searching does not stay true forever: with    *)
(* tuned-events and timeouts delivered and no station id ever arriving,    *)
(* searching becomes false in the end.                                     *)
(***************************************************************************)
StationIdSweepTerminates ==
    (m_searching /\ m_searchAll /\ m_searchMode = "SearchGetStationId") ~> ~m_searching

(***************************************************************************)
(* C3: in a station-id sweep that has found a first station, when the      *)
(* timer expires on a tuned channel that produced no station id since it   *)
(* was tuned, a forward scan is issued and the stationFound emitted for    *)
(* the channel carries an empty id.                                        *)
(***************************************************************************)
TimeoutReportsEmptyStationId ==
    (/\ tunerEnabled(Cur)
     /\ m_searchAll
     /\ m_searchMode = "SearchGetStationId"
     /\ m_firstFoundFrequency # 0
     /\ timerActive
     /\ HwSilent
     /\ ~piSinceTuned)
        => LET s == handleSeekTimeout(Cur, 0)
           IN  /\ s.cmds = <<<<"scan", "UP">>>>
               /\ s.emitted = <<<<"stationFound", FREQ_HAL_TO_QT(m_currentFreq), <<>>>>>>

(***************************************************************************)
(* C5: cancelSearch called while searching is false does nothing, in every *)
(* reachable state: it issues no hardware command and emits no             *)
(* notification.                                                           *)
(***************************************************************************)
CancelSearchIdleIsNoOp ==
    ~m_searching
        => LET s == cancelSearch(Cur)
           IN  s.cmds = <<>> /\ s.emitted = <<>> /\ s = Cur

\* cancelSearch is called on an enabled tuner that is not searching
CancelSearchIdleOnEnabledTuner == tunerEnabled(Cur) /\ ~m_searching

(***************************************************************************)
(* C6: after setFrequency(x), for every x (negative, below 1000, in range, *)
(* above range) and from every reachable state, the initial one included,  *)
(* the current frequency lies in [lower_limit, upper_limit].               *)
(***************************************************************************)
SetFrequencyStaysInBand ==
    \A x \in FrequencyInputs : setFrequency(Cur, x).m_currentFreq \in Band

(***************************************************************************)
(* C10: after a successful start() the session is open but not ready:      *)
(* tunerEnabled() is false and tunerState() reports stopped until a config *)
(* event is handled after that start, whatever came before it.             *)
(***************************************************************************)
StartedIsNotReady ==
    ~tuner
        => LET s == start(Cur, 0)
           IN  s.tuner /\ ~tunerEnabled(s) /\ tunerState(s) = "StoppedState"

(***************************************************************************)
(* C7: unit conversion round-trips: for every frequency f >= 0 of the      *)
(* 32-bit signed range, converting to native and back to external yields   *)
(* f rounded down to the nearest multiple of 1000, without overflow.       *)
(***************************************************************************)
ConversionRoundTrip ==
    (convStage = "external" /\ qtFreq >= 0)
        => /\ HalToQtDefined(halFreq)
           /\ qtBack = qtFreq - (qtFreq % 1000)

\* the largest int, which is no multiple of 1000, went there and back
ConvertedIntMax == convStage = "external" /\ qtFreq = IntMax /\ qtBack # qtFreq

(***************************************************************************)
(* C8: a metadata event whose consistency check fails changes no state     *)
(* (station id, station name, program type, radio text, search flags) and  *)
(* emits no notification, whatever records it carries and whatever the     *)
(* search state.                                                           *)
(***************************************************************************)
FailedCheckChangesNothing ==
    \A event \in MetadataEvents(Records) :
        (event.metadata /\ event.check # 0) => handleMetadata(Cur, event) = Cur

\* a session waiting for a station id receives an event that fails the check
\* and whose records would change the state had it passed
FailedCheckOnNewRecords ==
    /\ tuner
    /\ m_rdsError = "NoError"
    /\ m_searchWaitForRDS
    /\ m_stationName # <<>>
    /\ \E event \in MetadataEvents(Records) :
          /\ event.metadata
          /\ event.check # 0
          /\ handleMetadata(Cur, [event EXCEPT !.check = 0]) # Cur

(***************************************************************************)
(* C9: RDS change notifications fire only on a change of value: a station  *)
(* name, radio text or program type record whose (sanitized) value equals  *)
(* the value held emits no notification, so two consecutive RDS_PS records *)
(* with the same sanitized text fire exactly one stationNameChanged.       *)
(***************************************************************************)
Held(s, rec) ==
    CASE rec[2] = "RDS_PS" -> s.m_stationName = sanitize(rec[3])
      [] rec[2] = "TITLE" -> s.m_radioText = sanitize(rec[3])
      [] rec[2] \in {"RDS_PTY", "RBDS_PTY"} -> s.m_programType = rec[3]
      [] OTHER -> FALSE

TwoRecords(r1, r2) ==
    [metadata |-> TRUE, check |-> 0, records |-> <<r1, r2>>, failAt |-> 0]

NotifiedOnlyOnChange ==
    m_rdsError = "NoError" =>
        /\ \A rec \in Records :
              Held(Cur, rec) => handleRecord(Cur, rec).emitted = <<>>
        /\ \A r1, r2 \in Records :
              (/\ r1[2] = "RDS_PS"
               /\ r2[2] = "RDS_PS"
               /\ sanitize(r1[3]) = sanitize(r2[3])
               /\ m_stationName # sanitize(r1[3]))
                  => handleMetadata(Cur, TwoRecords(r1, r2)).emitted
                         = <<<<"stationNameChanged", sanitize(r1[3])>>>>

\* a station name, a radio text and a program type are held, each by a record
\* that can follow, and two station names that differ as sent but not once
\* sanitized, and from the name held, can follow
HoldsNameTextAndType ==
    /\ tuner
    /\ m_rdsError = "NoError"
    /\ m_stationName # <<>>
    /\ m_radioText # <<>>
    /\ m_programType # 0
    /\ \A key \in {"RDS_PS", "TITLE", "RDS_PTY"} :
          \E rec \in Records : rec[2] = key /\ Held(Cur, rec)
    /\ \E r1, r2 \in Records :
          /\ r1[2] = "RDS_PS"
          /\ r2[2] = "RDS_PS"
          /\ r1 # r2
          /\ sanitize(r1[3]) = sanitize(r2[3])
          /\ ~Held(Cur, r1)

(***************************************************************************)
(* C11: stop() on an open session cancels any search in progress: right    *)
(* after stop() searching is false, the sweep flags are cleared and the    *)
(* timer is not active, from every reachable state in which the session is *)
(* open, ready or not.                                                     *)
(***************************************************************************)
StopCancelsSearch ==
    tuner
        => LET s == stop(Cur)
           IN  /\ ~s.m_searching
               /\ ~s.m_searchAll
               /\ ~s.m_searchAllLast
               /\ ~s.m_searchWaitForRDS
               /\ ~s.timerActive

(***************************************************************************)
(* C12: handling a hardware failure event sets the tuner error to          *)
(* ResourceError and stops the session: afterwards the session is closed,  *)
(* the ready flag is false, tunerState() reports stopped, and              *)
(* stateChanged(stopped) was emitted if a session was open.                *)
(***************************************************************************)
HwFailureStopsSession ==
    (queue # <<>> /\ Head(queue)[1] = "eventHwFailure")
        => LET s == handleHwFailure(Dequeued)
           IN  /\ s.m_error = "ResourceError"
               /\ ~s.tuner
               /\ ~s.m_tunerReady
               /\ tunerState(s) = "StoppedState"
               /\ tuner => \E i \in 1..Len(s.emitted) :
                               s.emitted[i] = <<"stateChanged", "StoppedState">>

(***************************************************************************)
(* C13: the tuner error and the RDS error are latched values announced     *)
(* only when they change: setting an error equal to the one held emits no  *)
(* error notification, so two hardware failure events in a row emit at     *)
(* most one error(ResourceError).                                          *)
(***************************************************************************)
Count(seq, x) == Cardinality({i \in 1..Len(seq) : seq[i] = x})

ErrorsAreLatched ==
    /\ setError(Cur, m_error).emitted = <<>>
    /\ setRdsError(Cur, m_rdsError).emitted = <<>>
    /\ LET s == handleHwFailure(handleHwFailure(Cur))
       IN  Count(s.emitted, <<"error", "ResourceError">>)
               = IF m_error = "ResourceError" THEN 0 ELSE 1

\* a hardware failure was handled and the next one is queued behind it
SecondHwFailureQueued ==
    /\ m_error = "ResourceError"
    /\ queue # <<>>
    /\ Head(queue) = <<"eventHwFailure">>

(***************************************************************************)
(* C14: every kind of hardware event, metadata included, is handed to the  *)
(* session's thread before shared state is read or written: no handler     *)
(* step that touches shared state runs in the callback thread, so none is  *)
(* interleaved with a public operation or another handler.                 *)
(***************************************************************************)
HandlersNeverInterleave == [][cbPc # "idle" => cbPc' # cbPc]_vars

(***************************************************************************)
(* C15: the seek timer is stopped whenever searching is false: in every    *)
(* reachable state, searching false implies the timer is not active, also  *)
(* after a single seek whose scan failed, after start() and after a        *)
(* timeout handled while not searching.                                    *)
(***************************************************************************)
TimerStoppedWhenNotSearching == ~m_searching => ~timerActive

(***************************************************************************)
(* C16: the search context exists only while searching is true: in every   *)
(* reachable state, searching false implies that m_searchAll,              *)
(* m_searchAllLast and m_searchWaitForRDS are all false.                   *)
(***************************************************************************)
SearchContextOnlyWhileSearching ==
    ~m_searching => (~m_searchAll /\ ~m_searchAllLast /\ ~m_searchWaitForRDS)

(***************************************************************************)
(* C17: in every reachable state, searching true implies the tuner is      *)
(* enabled (open and ready): no searchForward, searchBackward or           *)
(* searchAllStations called while the tuner is not enabled sets searching  *)
(* to true.                                                                *)
(***************************************************************************)
SearchingOnlyWhenEnabled == m_searching => tunerEnabled(Cur)

(***************************************************************************)
(* C18: after cancelSearch has cleared an active search, no scan is issued *)
(* and searching does not become true again until the next public          *)
(* searchForward, searchBackward or searchAllStations, whatever station id *)
(* events, queued next-step requests and tuned-events are in flight.       *)
(* Stated for the step that follows the cancelSearch.                      *)
(***************************************************************************)
Scans(s) == \E i \in 1..Len(s.cmds) : s.cmds[i][1] = "scan"

\* the state cancelSearch leaves, its own outputs set aside
Cancelled == [cancelSearch(Cur) EXCEPT !.cmds = <<>>, !.emitted = <<>>]

StaysIdle(s) == ~Scans(s) /\ ~s.m_searching

NoScanAfterCancel ==
    (m_searching /\ tunerEnabled(Cur))
        => /\ ~Cancelled.m_searching
           /\ (queue # <<>> /\ Head(queue)[1] = "seekNextChannel")
                 => \A ret \in HalResults :
                        StaysIdle(searchForward([Cancelled EXCEPT !.queue = Tail(@)], ret))
           /\ (queue # <<>> /\ Head(queue)[1] = "eventTuned")
                 => \A ret \in HalResults :
                        StaysIdle(handleTuned([Cancelled EXCEPT !.queue = Tail(@)],
                                              Head(queue)[2], TRUE, ret))
           /\ \A event \in PiEvents :
                 LET s == handleMetadata(Cancelled, event)
                 IN  StaysIdle(s) /\ s.queue = queue

(***************************************************************************)
(* C19: a single seek (tuner enabled, no sweep in progress, scan issued    *)
(* successfully) sets searching to true and arms the seek timer; a         *)
(* tuned-event for channel C handled while that seek is pending sets the   *)
(* current frequency to C, emits frequencyChanged(C x 1000), sets          *)
(* searching to false and stops the seek timer.                            *)
(***************************************************************************)
Directions == {"UP", "DOWN"}

SeekResolved(s, channel) ==
    /\ s.m_currentFreq = channel
    /\ Count(s.emitted, <<"frequencyChanged", channel * 1000>>) = 1
    /\ ~s.m_searching
    /\ ~s.timerActive

SingleSeekPending ==
    /\ m_searching /\ ~m_searchAll /\ timerActive
    /\ queue # <<>> /\ Head(queue)[1] = "eventTuned"

SingleSeekResolvedByTuned ==
    /\ (tunerEnabled(Cur) /\ ~m_searchAll)
          => \A direction \in Directions :
                LET s == seek(Cur, direction, 0)
                IN  /\ Scans(s) /\ s.m_searching /\ s.timerActive
                    /\ \A channel \in Band, stereo \in BOOLEAN, ret \in HalResults :
                          SeekResolved(handleTuned([s EXCEPT !.emitted = <<>>],
                                                   channel, stereo, ret), channel)
    /\ SingleSeekPending
          => \A stereo \in BOOLEAN, ret \in HalResults :
                SeekResolved(handleTuned(Dequeued, Head(queue)[2], stereo, ret),
                             Head(queue)[2])

SingleSeekAwaitsTuned == SingleSeekPending /\ tunerEnabled(Cur)

(***************************************************************************)
(* C20: the remaining range of a sweep is upper_limit - lower_limit right  *)
(* after searchAllStations, whatever the current frequency (0 when it was  *)
(* never set), and no tuned-event for an in-band channel handled while the *)
(* sweep is stepping makes it larger.                                      *)
(***************************************************************************)
SweepStepping == m_searchAll /\ ~m_searchAllLast

RangeNeverIncreases ==
    /\ \A searchMode \in SearchModes, ret \in HalResults :
          searchAllStations(Cur, searchMode, ret).m_searchRange = UpperLimit - LowerLimit
    /\ SweepStepping
          => \A channel \in Band, stereo \in BOOLEAN, ret \in HalResults :
                /\ tunedSearchAll(Cur, channel, ret).s.m_searchRange <= m_searchRange
                /\ handleTuned(Cur, channel, stereo, ret).m_searchRange <= m_searchRange

SweepPartlyCovered ==
    /\ SweepStepping
    /\ m_searchRange > 0
    /\ m_searchRange < UpperLimit - LowerLimit
    /\ queue # <<>> /\ Head(queue)[1] = "eventTuned"

(***************************************************************************)
(* C21: when a fast sweep ends, the channels its tuned-events delivered    *)
(* have been passed to stationFound: the channel of the tuned-event that   *)
(* makes searching false was passed to stationFound in the sweep so far or *)
(* is passed in that step, also when it is the first tuned-event of the    *)
(* sweep.                                                                  *)
(***************************************************************************)
FastSweepStepQueued ==
    /\ m_searching /\ m_searchAll /\ ~m_searchAllLast
    /\ m_searchMode = "SearchFast"
    /\ queue # <<>> /\ Head(queue)[1] = "eventTuned"

FastSweepReportsEveryChannel ==
    FastSweepStepQueued
        => LET channel == Head(queue)[2]
               s == handleTuned(Dequeued, channel, TRUE, 0)
               reported == Observe([found |-> found, dup |-> dupFound], s.emitted).found
           IN  ~s.m_searching => FREQ_HAL_TO_QT(channel) \in reported

(***************************************************************************)
(* C22: in a station-id sweep a tuned-event that leaves the remaining      *)
(* range above 0 issues no scan; a next-step request queued after a        *)
(* tuned-event of the sweep stems from a station id read since that        *)
(* tuned-event was handled (the timer's expiry is the only other source of *)
(* the sweep's next scan).                                                 *)
(***************************************************************************)
StationIdSweep == m_searching /\ m_searchAll /\ m_searchMode = "SearchGetStationId"

StationIdArrival ==
    m_rdsError = "NoError"
        => \A event \in PiEvents :
              ReadsPI(event)
                  => LET id == sanitize(event.records[1][3])
                         s == handleMetadata(Cur, event)
                     IN  IF id = m_stationId THEN s = Cur
                         ELSE IF m_searchWaitForRDS
                         THEN s = [Cur EXCEPT
                                     !.m_stationId = id,
                                     !.emitted = <<<<"stationFound",
                                                    FREQ_HAL_TO_QT(m_currentFreq), id>>>>,
                                     !.queue = Append(queue, <<"seekNextChannel">>)]
                         ELSE s = [Cur EXCEPT
                                     !.m_stationId = id,
                                     !.emitted = <<<<"stationIdChanged", id>>>>]

\* a station id was stored while waiting and the next step is requested
StationIdStoredWhileWaiting ==
    /\ tuner
    /\ m_searchWaitForRDS
    /\ m_stationId # <<>>
    /\ queue # <<>> /\ Head(queue)[1] = "seekNextChannel"

(***************************************************************************)
(* C24: during one station-id sweep, from                                  *)
(* searchAllStations(SearchGetStationId) on and while searching is true,   *)
(* no frequency has been passed to stationFound more than once, whatever   *)
(* the order of tuned-events, station-id events and timeouts.              *)
(***************************************************************************)
StationIdSweepReportsNoFrequencyTwice == StationIdSweep => ~dupFound

(***************************************************************************)
(* C25: the handler of a station-id event issues no hardware command: it   *)
(* only queues the next-step request to the session's context, and the     *)
(* scan is issued when the session's event loop runs the queued            *)
(* searchForward().                                                        *)
(***************************************************************************)
NextStepQueued == queue # <<>> /\ Head(queue)[1] = "seekNextChannel"

ScanIsDeferred ==
    /\ \A event \in PiEvents :
          LET s == handleMetadata(Cur, event)
          IN  /\ s.cmds = <<>>
              /\ s.queue \in {queue, Append(queue, <<"seekNextChannel">>)}
              /\ (m_rdsError = "NoError" /\ ReadsPI(event) /\ m_searchWaitForRDS
                      /\ sanitize(event.records[1][3]) # m_stationId)
                    => s.queue = Append(queue, <<"seekNextChannel">>)
    /\ piBranch(Cur).cmds = <<>>
    /\ (NextStepQueued /\ tunerEnabled(Cur))
          => LET s == searchForward(Dequeued, 0)
             IN  s.cmds = <<<<"scan", "UP">>>> /\ s.queue = Tail(queue)

NextStepQueuedInSweep ==
    NextStepQueued /\ tunerEnabled(Cur) /\ m_searchAll /\ m_searchWaitForRDS

(***************************************************************************)
(* C26: when the seek timer expires while searching is true and the search *)
(* is a single seek, a fast sweep, or a station-id sweep that has found no *)
(* station yet, the search is cancelled: a hardware cancel is issued, the  *)
(* sweep flags are cleared, searching becomes false, the timer is stopped  *)
(* and no stationFound is emitted.                                         *)
(***************************************************************************)
TimeoutCancelsSearch ==
    (/\ timerActive
     /\ m_searching
     /\ \/ ~m_searchAll
        \/ m_searchMode = "SearchFast"
        \/ m_firstFoundFrequency = 0)
        => \A ret \in HalResults :
              LET s == handleSeekTimeout(Cur, ret)
              IN  /\ s.cmds = <<<<"cancel">>>>
                  /\ ~s.m_searchAll /\ ~s.m_searchAllLast /\ ~s.m_searchWaitForRDS
                  /\ ~s.m_searching
                  /\ ~s.timerActive
                  /\ \A i \in 1..Len(s.emitted) : s.emitted[i][1] # "stationFound"

(***************************************************************************)
(* C27: the RDS state (station id, station name, program type, radio text) *)
(* is empty after setFrequency has set a new tune target, after a single   *)
(* seek has started and after searchAllStations, in every reachable state, *)
(* the tuner enabled or not; the steps of a sweep in progress leave it as  *)
(* it is.                                                                  *)
(***************************************************************************)
RdsOf(s) == <<s.m_stationId, s.m_stationName, s.m_programType, s.m_radioText>>

RdsEmpty(s) == RdsOf(s) = <<<<>>, <<>>, 0, <<>>>>

RdsResetOnNewTarget ==
    /\ \A newFrequency \in FrequencyInputs :
          LET s == setFrequency(Cur, newFrequency)
          IN  s.m_currentFreq # m_currentFreq => RdsEmpty(s)
    /\ \A direction \in Directions, ret \in HalResults :
          LET s == seek(Cur, direction, ret)
          IN  /\ (~m_searchAll /\ Scans(s)) => RdsEmpty(s)
              /\ m_searchAll => RdsOf(s) = RdsOf(Cur)
    /\ \A searchMode \in SearchModes, ret \in HalResults :
          RdsEmpty(searchAllStations(Cur, searchMode, ret))
    /\ SweepStepping
          => \A channel \in Band, ret \in HalResults :
                RdsOf(tunedSearchAll(Cur, channel, ret).s) = RdsOf(Cur)

(***************************************************************************)
(* C28: a single seek whose scan command fails (non-zero return) leaves    *)
(* searching at the value it had before the call and emits no              *)
(* searchingChanged.                                                       *)
(***************************************************************************)
FailedSeekKeepsSearching ==
    ~m_searchAll
        => \A direction \in Directions :
              LET s == seek(Cur, direction, -1)
              IN  /\ s.m_searching = m_searching
                  /\ \A i \in 1..Len(s.emitted) : s.emitted[i][1] # "searchingChanged"
                  /\ tunerEnabled(Cur) => s.cmds = <<<<"scan", direction>>>>

\* a single seek failed on an enabled tuner: the timer runs, searching is false
SeekFailedOnEnabledTuner ==
    tunerEnabled(Cur) /\ ~m_searchAll /\ timerActive /\ ~m_searching

(***************************************************************************)
(* C29: every stateChanged notification agrees with tunerState(): a step   *)
(* that emits stateChanged(ActiveState) leaves tunerState() at ActiveState *)
(* and a step that emits stateChanged(StoppedState) leaves it at           *)
(* StoppedState, for start, stop and the config and hardware failure       *)
(* events in every order.                                                  *)
(***************************************************************************)
Agrees(s) ==
    \A i \in 1..Len(s.emitted) :
        s.emitted[i][1] = "stateChanged" => s.emitted[i][2] = tunerState(s)

StateChangedAgreesWithTunerState ==
    /\ \A ret \in HalResults : Agrees(start(Cur, ret))
    /\ Agrees(stop(Cur))
    /\ (queue # <<>> /\ Head(queue)[1] = "eventConfig")
          => \A bandIsFM \in BOOLEAN, stereo \in BOOLEAN :
                Agrees(handleConfig(Dequeued, bandIsFM, stereo))
    /\ (queue # <<>> /\ Head(queue)[1] = "eventHwFailure")
          => Agrees(handleHwFailure(Dequeued))

(***************************************************************************)
(* C30: every change of the searching flag is announced: an operation or   *)
(* event handler that leaves searching at another value than it found      *)
(* emits exactly one searchingChanged, carrying the new value; start()     *)
(* included.                                                               *)
(***************************************************************************)
Announced(s) ==
    s.m_searching # m_searching
        => /\ Count(s.emitted, <<"searchingChanged", s.m_searching>>) = 1
           /\ Count(s.emitted, <<"searchingChanged", m_searching>>) = 0

SearchingChangeAnnounced ==
    /\ \A ret \in HalResults :
          /\ Announced(start(Cur, ret))
          /\ Announced(searchForward(Cur, ret))
          /\ Announced(searchBackward(Cur, ret))
          /\ Announced(handleSeekTimeout(Cur, ret))
          /\ \A searchMode \in SearchModes : Announced(searchAllStations(Cur, searchMode, ret))
          /\ \A channel \in Band, stereo \in BOOLEAN :
                Announced(handleTuned(Cur, channel, stereo, ret))
    /\ Announced(stop(Cur))
    /\ Announced(cancelSearch(Cur))
    /\ Announced(handleHwFailure(Cur))
    /\ \A newFrequency \in FrequencyInputs : Announced(setFrequency(Cur, newFrequency))
    /\ \A bandIsFM \in BOOLEAN, stereo \in BOOLEAN : Announced(handleConfig(Cur, bandIsFM, stereo))
    /\ \A event \in PiEvents : Announced(handleMetadata(Cur, event))


====
